---- MODULE Spec2Model ----
(***************************************************************************)
(* A model of FarmCore (src/FarmCore-qwen3-coder-480b-T5810-a01.py): the   *)
(* animal pools, the crop grid, the tick of game_loop, the six commands    *)
(* and the program main() builds around them (the game_loop task and the   *)
(* FarmCLI read loop).                                                     *)
(*                                                                         *)
(* Specifications:                                                         *)
(*   Spec      the FarmCore object driven through its methods, with the    *)
(*             game loop getting its turn between any two calls;           *)
(*   LoadSpec  Spec on any barn.csv / farm.csv the loaders read;           *)
(*   LoopSpec  the game loop statement by statement, beside a front end    *)
(*             that shares its event loop, registers callbacks and         *)
(*             cancels the task at shutdown;                               *)
(*   MainSpec  the program as main() starts it: one event loop, the        *)
(*             coroutine main() running FarmCLI.run() and the task         *)
(*             game_loop (FairMainSpec adds the event loop's fairness).    *)
(***************************************************************************)
EXTENDS Integers, Sequences, FiniteSets, TLC

VARIABLES
    animals,            \* self.animals: species -> list of 6 AnimalData
    crops,              \* self.crops[y][x]: None or a CropData
    field_grid,         \* self.field_grid[y][x]: the cell's symbol
    animal_templates,   \* self.animal_templates
    crop_templates,     \* self.crop_templates
    load_failed,        \* a loader has logged an error (logger.error)
    result,             \* the dict the last command returned
    last,               \* the last operation and its arguments
    indexed,            \* the cells <<x, y>> of self.crops the last command indexed
    since,              \* since[y][x]: ticks run since the patch was planted
    fed_since,          \* fed_since[species][i]: ticks run since the GROWING slot was fed
    calls,              \* commands called so far
    ticks,              \* ticks run so far
    main_pc,            \* where the coroutine main() stands
    game_task,          \* the state of the task running game_loop
    cancel_requested,   \* game_task.cancel() has been called
    callbacks,          \* self.callbacks: what each registered callback does when called
    invoked,            \* the callbacks called so far in the current loop iteration
    loop_pc             \* game_loop's place in its loop body: 0 at the sleep

vars == <<animals, crops, field_grid, animal_templates, crop_templates,
          load_failed, result, last, indexed, since, fed_since, calls, ticks, main_pc, game_task,
          cancel_requested, callbacks, invoked, loop_pc>>

farm_vars == <<animals, crops, field_grid>>

-----------------------------------------------------------------------------
(* Program constants *)

PoolSize == 6
GridSize == 10

(* Bounds of the model *)

MaxCalls == 2
MaxTicks == 2
MaxCallbacks == 2

-----------------------------------------------------------------------------
(* Values *)

\* Python's None in a grid cell
None == [none |-> TRUE]

NoResult == [success |-> TRUE, message |-> "constructed"]

\* an operation and its arguments, as recorded in last
Op(op, name, count, x, y) == [op |-> op, name |-> name, count |-> count, x |-> x, y |-> y]

Rows == 0 .. (GridSize - 1)
Slots == 0 .. (PoolSize - 1)

AnimalTemplate(animal, minutes, seconds, product) ==
    [animal |-> animal, minutes |-> minutes, seconds |-> seconds, product |-> product]

CropTemplate(crop, minutes, seconds) ==
    [crop |-> crop, minutes |-> minutes, seconds |-> seconds]

\* template.minutes * 60 + template.seconds
TotalSeconds_AddOnly(template) == template.minutes + template.seconds

TotalSeconds(template) == template.minutes * 60 + template.seconds

\* crop_type[0].upper(), on the identifiers the model uses
FirstUpper(name) ==
    CASE name = "wheat"  -> "W"
      [] name = "corn"   -> "C"
      [] name = "carrot" -> "C"
      [] name = "weed"   -> "W"

PlantedMark(crop_type) == "(" \o FirstUpper(crop_type) \o ")"
ReadyMark(crop_type) == "[" \o FirstUpper(crop_type) \o "]"

-----------------------------------------------------------------------------
(* Template files.  A file is the sequence of its data rows, the numeric   *)
(* columns as int() reads them; a row the template cannot be built from    *)
(* (a column missing, a cell int() rejects) is the exception it raises.    *)

BadRow(error) == [raises |-> error]

\* building the template from the row raises (KeyError, TypeError, ValueError)
Raises(row) == "raises" \in DOMAIN row

DefaultBarnCsv ==
    << AnimalTemplate("cow", 0, 30, "milk"),
       AnimalTemplate("chicken", 0, 20, "egg"),
       AnimalTemplate("sheep", 0, 40, "wool") >>

DefaultFarmCsv ==
    << CropTemplate("wheat", 0, 25),
       CropTemplate("corn", 0, 35),
       CropTemplate("carrot", 0, 15) >>

\* barn.csv and farm.csv as found on disk: short durations and a duration
\* given in minutes; zero durations
Installations ==
    { [barn |-> << AnimalTemplate("cow", 0, 2, "milk"), AnimalTemplate("chicken", 1, 0, "egg") >>,
       farm |-> << CropTemplate("wheat", 0, 2), CropTemplate("corn", 1, 0) >>],
      [barn |-> << AnimalTemplate("cow", 0, 0, "milk"), AnimalTemplate("chicken", 0, 1, "egg") >>,
       farm |-> << CropTemplate("wheat", 0, 0), CropTemplate("corn", 0, 1) >>] }

\* the rows in file order, a later row replacing an earlier one of the same
\* key; a row that raises ends the loop in the except clause, which logs the
\* error and keeps the templates stored so far
RECURSIVE LoadRows(_, _, _)
LoadRows(rows, key, templates) ==
    IF rows = << >> THEN [templates |-> templates, failed |-> FALSE]
    ELSE LET row == Head(rows)
         IN  IF Raises(row) THEN [templates |-> templates, failed |-> TRUE]
             ELSE LET k   == row[key]
                      old == [n \in DOMAIN templates \ {k} |-> templates[n]]
                  IN  LoadRows(Tail(rows), key, (k :> row) @@ old)

load_animal_data(file) == LoadRows(file, "animal", << >>)
load_crop_data(file) == LoadRows(file, "crop", << >>)

initialize_animals_Short(templates) ==
    [a \in DOMAIN templates |->
        [i \in 0 .. (PoolSize - 2) |-> [state |-> "IDLE", timer |-> 0, template |-> templates[a]]]]

initialize_animals(templates) ==
    [a \in DOMAIN templates |->
        [i \in Slots |-> [state |-> "IDLE", timer |-> 0, template |-> templates[a]]]]

-----------------------------------------------------------------------------
(* The tick: _update_animals, _update_crops *)

UpdateAnimal_NoClamp(animal) ==
    IF animal.state = "GROWING"
    THEN IF animal.timer - 1 <= 0
         THEN [animal EXCEPT !.state = "MATURE", !.timer = animal.timer - 1]
         ELSE [animal EXCEPT !.timer = animal.timer - 1]
    ELSE animal

\* _update_animals with animal.timer -= 2
UpdateAnimal_StepTwo(animal) ==
    IF animal.state = "GROWING"
    THEN IF animal.timer - 2 <= 0
         THEN [animal EXCEPT !.state = "MATURE", !.timer = 0]
         ELSE [animal EXCEPT !.timer = animal.timer - 2]
    ELSE animal

UpdateAnimal(animal) ==
    IF animal.state = "GROWING"
    THEN IF animal.timer - 1 <= 0
         THEN [animal EXCEPT !.state = "MATURE", !.timer = 0]
         ELSE [animal EXCEPT !.timer = animal.timer - 1]
    ELSE animal

\* _update_animals leaving each pool after its first GROWING slot
update_animals_FirstOnly(an) ==
    [a \in DOMAIN an |-> [i \in DOMAIN an[a] |->
        IF \E j \in DOMAIN an[a] : j < i /\ an[a][j].state = "GROWING"
        THEN an[a][i] ELSE UpdateAnimal(an[a][i])]]

update_animals(an) ==
    [a \in DOMAIN an |-> [i \in DOMAIN an[a] |-> UpdateAnimal(an[a][i])]]

UpdateCrop_Late(crop) ==
    IF crop # None /\ crop.state = "PLANTED"
    THEN IF crop.timer - 1 < 0
         THEN [crop EXCEPT !.state = "READY", !.timer = 0]
         ELSE [crop EXCEPT !.timer = crop.timer - 1]
    ELSE crop

UpdateCrop(crop) ==
    IF crop # None /\ crop.state = "PLANTED"
    THEN IF crop.timer - 1 <= 0
         THEN [crop EXCEPT !.state = "READY", !.timer = 0]
         ELSE [crop EXCEPT !.timer = crop.timer - 1]
    ELSE crop

\* the grid and the symbols after one _update_crops pass
update_crops(cr, fg) ==
    LET new == [y \in Rows |-> [x \in Rows |-> UpdateCrop(cr[y][x])]]
    IN  [crops |-> new,
         field_grid |->
            [y \in Rows |-> [x \in Rows |->
                IF cr[y][x] # None /\ cr[y][x].state = "PLANTED" /\ new[y][x].state = "READY"
                THEN ReadyMark(cr[y][x].template.crop)
                ELSE fg[y][x]]]]

-----------------------------------------------------------------------------
(* The loop of game_loop and _notify_callbacks *)

\* the statements of the loop body after 'await asyncio.sleep(1)', in order
LoopBody_NotifyEarly == <<"update_animals", "notify_callbacks", "update_crops">>

LoopBody == <<"update_animals", "update_crops", "notify_callbacks">>

\* the places of loop_pc at which game_loop is suspended at an await: there
\* the event loop runs other code and delivers a cancellation
AwaitPoints_BetweenPasses == {0, 2}

AwaitPoints == {0}

Suspended == loop_pc \in AwaitPoints

\* the statements of the current iteration that have completed
Executed == IF loop_pc = 0 THEN {} ELSE {LoopBody[j] : j \in 1 .. (loop_pc - 1)}

\* what a registered callback does when called: it returns, or it raises an
\* exception of class Exception
CallbackKinds == {"returns", "raises"}

\* _notify_callbacks without the try/except: the first exception leaves it
RECURSIVE NotifyLoop_NoCatch(_, _, _, _)
NotifyLoop_NoCatch(cbs, i, called, executed) ==
    IF i > Len(cbs) THEN [invoked |-> called, propagated |-> FALSE]
    ELSE LET call == [callback |-> i, after |-> executed, raised |-> cbs[i] = "raises"]
         IN  IF call.raised
             THEN [invoked |-> Append(called, call), propagated |-> TRUE]
             ELSE NotifyLoop_NoCatch(cbs, i + 1, Append(called, call), executed)

\* for callback in self.callbacks, from the i-th on: the callback is called
\* and an Exception it raises is caught and logged
RECURSIVE NotifyLoop(_, _, _, _)
NotifyLoop(cbs, i, called, executed) ==
    IF i > Len(cbs) THEN [invoked |-> called, propagated |-> FALSE]
    ELSE LET call == [callback |-> i, after |-> executed, raised |-> cbs[i] = "raises"]
         IN  NotifyLoop(cbs, i + 1, Append(called, call), executed)

notify_callbacks(cbs, executed) == NotifyLoop(cbs, 1, << >>, executed)

-----------------------------------------------------------------------------
(* Animal commands *)

\* the loop of feed_animals over the pool, from slot i on
RECURSIVE FeedLoop(_, _, _, _)
FeedLoop(pool, i, fed_count, count) ==
    IF i \notin DOMAIN pool THEN [pool |-> pool, count |-> fed_count]
    ELSE IF pool[i].state = "IDLE" /\ fed_count < count
         THEN FeedLoop([pool EXCEPT ![i] = [state |-> "GROWING",
                                            timer |-> TotalSeconds(pool[i].template),
                                            template |-> pool[i].template]],
                       i + 1, fed_count + 1, count)
         ELSE FeedLoop(pool, i + 1, fed_count, count)

feed_animals(animal_type, count) ==
    /\ last' = Op("feed_animals", animal_type, count, 0, 0)
    /\ indexed' = {}
    /\ UNCHANGED <<crops, field_grid>>
    /\ IF animal_type \notin DOMAIN animals
       THEN /\ result' = [success |-> FALSE, message |-> "Unknown animal type"]
            /\ UNCHANGED animals
       ELSE LET r == FeedLoop(animals[animal_type], 0, 0, count)
            IN  /\ animals' = [animals EXCEPT ![animal_type] = r.pool]
                /\ result' = [success |-> TRUE, message |-> "Successfully fed",
                              count |-> r.count]

\* harvest_animals taking every slot that is not IDLE
RECURSIVE HarvestLoop_AnyBusy(_, _, _, _, _)
HarvestLoop_AnyBusy(pool, i, harvested_count, product, count) ==
    IF i \notin DOMAIN pool
    THEN [pool |-> pool, count |-> harvested_count, product |-> product]
    ELSE IF pool[i].state # "IDLE" /\ harvested_count < count
         THEN HarvestLoop_AnyBusy([pool EXCEPT ![i] = [state |-> "IDLE", timer |-> 0,
                                                       template |-> pool[i].template]],
                                  i + 1, harvested_count + 1, pool[i].template.product, count)
         ELSE HarvestLoop_AnyBusy(pool, i + 1, harvested_count, product, count)

\* harvest_animals without harvested_count += 1
RECURSIVE HarvestLoop_NoCount(_, _, _, _, _)
HarvestLoop_NoCount(pool, i, harvested_count, product, count) ==
    IF i \notin DOMAIN pool
    THEN [pool |-> pool, count |-> harvested_count, product |-> product]
    ELSE IF pool[i].state = "MATURE" /\ harvested_count < count
         THEN HarvestLoop_NoCount([pool EXCEPT ![i] = [state |-> "IDLE", timer |-> 0,
                                                       template |-> pool[i].template]],
                                  i + 1, harvested_count, pool[i].template.product, count)
         ELSE HarvestLoop_NoCount(pool, i + 1, harvested_count, product, count)

\* harvest_animals testing harvested_count <= count
RECURSIVE HarvestLoop_OneMore(_, _, _, _, _)
HarvestLoop_OneMore(pool, i, harvested_count, product, count) ==
    IF i \notin DOMAIN pool
    THEN [pool |-> pool, count |-> harvested_count, product |-> product]
    ELSE IF pool[i].state = "MATURE" /\ harvested_count <= count
         THEN HarvestLoop_OneMore([pool EXCEPT ![i] = [state |-> "IDLE", timer |-> 0,
                                                       template |-> pool[i].template]],
                                  i + 1, harvested_count + 1, pool[i].template.product, count)
         ELSE HarvestLoop_OneMore(pool, i + 1, harvested_count, product, count)

\* the loop of harvest_animals over the pool, from slot i on
RECURSIVE HarvestLoop(_, _, _, _, _)
HarvestLoop(pool, i, harvested_count, product, count) ==
    IF i \notin DOMAIN pool
    THEN [pool |-> pool, count |-> harvested_count, product |-> product]
    ELSE IF pool[i].state = "MATURE" /\ harvested_count < count
         THEN HarvestLoop([pool EXCEPT ![i] = [state |-> "IDLE", timer |-> 0,
                                               template |-> pool[i].template]],
                          i + 1, harvested_count + 1, pool[i].template.product, count)
         ELSE HarvestLoop(pool, i + 1, harvested_count, product, count)

harvest_animals(animal_type, count) ==
    /\ last' = Op("harvest_animals", animal_type, count, 0, 0)
    /\ indexed' = {}
    /\ UNCHANGED <<crops, field_grid>>
    /\ IF animal_type \notin DOMAIN animals
       THEN /\ result' = [success |-> FALSE, message |-> "Unknown animal type"]
            /\ UNCHANGED animals
       ELSE LET r == HarvestLoop(animals[animal_type], 0, 0, "None", count)
            IN  /\ animals' = [animals EXCEPT ![animal_type] = r.pool]
                /\ result' = IF r.count > 0
                             THEN [success |-> TRUE, message |-> "Successfully harvested",
                                   product |-> r.product, count |-> r.count]
                             ELSE [success |-> FALSE,
                                   message |-> "No mature animals to harvest"]

-----------------------------------------------------------------------------
(* Crop commands.  The scans keep the two nested range(10) loops of the   *)
(* code, each with its break on the count.                                 *)

\* the first n cells of the row-major scan
Scanned(n) == {<<k % GridSize, k \div GridSize>> : k \in 0 .. (n - 1)}

Planted(crop_type, template) ==
    [state |-> "PLANTED", timer |-> TotalSeconds(template), template |-> template]

\* plant_crops indexing self.crops[x][y]
RECURSIVE PlantRow_Transposed(_, _, _, _, _)
PlantRow_Transposed(st, y, x, count, crop_type) ==
    IF x >= GridSize \/ st.count >= count THEN st
    ELSE IF st.crops[x][y] = None
         THEN PlantRow_Transposed(
                       [crops      |-> [st.crops EXCEPT ![x][y] =
                                           Planted(crop_type, crop_templates[crop_type])],
                        field_grid |-> [st.field_grid EXCEPT ![x][y] = PlantedMark(crop_type)],
                        count      |-> st.count + 1,
                        visited    |-> st.visited + 1],
                       y, x + 1, count, crop_type)
         ELSE PlantRow_Transposed([st EXCEPT !.visited = @ + 1], y, x + 1, count, crop_type)

\* for x in range(10) of plant_crops, in row y from column x on;
\* st = [crops, field_grid, count (planted_count), visited (cells indexed)]
RECURSIVE PlantRow(_, _, _, _, _)
PlantRow(st, y, x, count, crop_type) ==
    IF x >= GridSize \/ st.count >= count THEN st
    ELSE IF st.crops[y][x] = None
         THEN PlantRow([crops      |-> [st.crops EXCEPT ![y][x] =
                                           Planted(crop_type, crop_templates[crop_type])],
                        field_grid |-> [st.field_grid EXCEPT ![y][x] = PlantedMark(crop_type)],
                        count      |-> st.count + 1,
                        visited    |-> st.visited + 1],
                       y, x + 1, count, crop_type)
         ELSE PlantRow([st EXCEPT !.visited = @ + 1], y, x + 1, count, crop_type)

\* for y in range(10) of plant_crops, from row y on
RECURSIVE PlantLoop(_, _, _, _)
PlantLoop(st, y, count, crop_type) ==
    IF y >= GridSize THEN st
    ELSE LET after == PlantRow(st, y, 0, count, crop_type)
         IN  IF after.count >= count THEN after
             ELSE PlantLoop(after, y + 1, count, crop_type)

plant_crops(count, crop_type) ==
    /\ last' = Op("plant_crops", crop_type, count, 0, 0)
    /\ UNCHANGED animals
    /\ IF crop_type \notin DOMAIN crop_templates
       THEN /\ result' = [success |-> FALSE, message |-> "Unknown crop type"]
            /\ indexed' = {}
            /\ UNCHANGED <<crops, field_grid>>
       ELSE LET r == PlantLoop([crops |-> crops, field_grid |-> field_grid, count |-> 0,
                                 visited |-> 0], 0, count, crop_type)
            IN  /\ crops' = r.crops
                /\ field_grid' = r.field_grid
                /\ indexed' = Scanned(r.visited)
                /\ result' = [success |-> TRUE, message |-> "Successfully planted",
                              count |-> r.count]

InRange_UpperOnly(x, y) == x < GridSize /\ y < GridSize

\* 0 <= x < 10 and 0 <= y < 10
InRange(x, y) == 0 <= x /\ x < GridSize /\ 0 <= y /\ y < GridSize

\* the cell a Python list index reaches: a negative index counts from the end
PyIndex(i) == IF i < 0 THEN i + GridSize ELSE i

plant_crop(x, y, crop_type) ==
    /\ last' = Op("plant_crop", crop_type, 0, x, y)
    /\ UNCHANGED animals
    /\ IF ~ InRange(x, y)
       THEN /\ result' = [success |-> FALSE, message |-> "Invalid coordinates"]
            /\ indexed' = {}
            /\ UNCHANGED <<crops, field_grid>>
       ELSE IF crop_type \notin DOMAIN crop_templates
       THEN /\ result' = [success |-> FALSE, message |-> "Unknown crop type"]
            /\ indexed' = {}
            /\ UNCHANGED <<crops, field_grid>>
       ELSE IF crops[PyIndex(y)][PyIndex(x)] # None
       THEN /\ result' = [success |-> FALSE, message |-> "Patch already occupied"]
            /\ indexed' = {<<PyIndex(x), PyIndex(y)>>}
            /\ UNCHANGED <<crops, field_grid>>
       ELSE /\ crops' = [crops EXCEPT ![PyIndex(y)][PyIndex(x)] =
                            Planted(crop_type, crop_templates[crop_type])]
            /\ field_grid' = [field_grid EXCEPT ![PyIndex(y)][PyIndex(x)] =
                            PlantedMark(crop_type)]
            /\ indexed' = {<<PyIndex(x), PyIndex(y)>>}
            /\ result' = [success |-> TRUE, message |-> "Successfully planted at"]

\* harvest_crops keeping the harvested CropData in the cell, its state EMPTY
RECURSIVE HarvestRow_MarksEmpty(_, _, _, _)
HarvestRow_MarksEmpty(st, y, x, count) ==
    IF x >= GridSize \/ Len(st.harvested) >= count THEN st
    ELSE LET crop == st.crops[y][x]
         IN  IF crop # None /\ crop.state = "READY"
             THEN HarvestRow_MarksEmpty(
                             [crops      |-> [st.crops EXCEPT ![y][x] =
                                                 [crop EXCEPT !.state = "EMPTY"]],
                              field_grid |-> [st.field_grid EXCEPT ![y][x] = "."],
                              harvested  |-> Append(st.harvested, crop.template.crop),
                              visited    |-> st.visited + 1],
                             y, x + 1, count)
             ELSE HarvestRow_MarksEmpty([st EXCEPT !.visited = @ + 1], y, x + 1, count)

\* harvest_crops taking every occupied cell
RECURSIVE HarvestRow_AnyCrop(_, _, _, _)
HarvestRow_AnyCrop(st, y, x, count) ==
    IF x >= GridSize \/ Len(st.harvested) >= count THEN st
    ELSE LET crop == st.crops[y][x]
         IN  IF crop # None
             THEN HarvestRow_AnyCrop(
                             [crops      |-> [st.crops EXCEPT ![y][x] = None],
                              field_grid |-> [st.field_grid EXCEPT ![y][x] = "."],
                              harvested  |-> Append(st.harvested, crop.template.crop),
                              visited    |-> st.visited + 1],
                             y, x + 1, count)
             ELSE HarvestRow_AnyCrop([st EXCEPT !.visited = @ + 1], y, x + 1, count)

\* for x in range(10) of harvest_crops, in row y from column x on;
\* st = [crops, field_grid, harvested, visited (cells indexed)]
RECURSIVE HarvestRow(_, _, _, _)
HarvestRow(st, y, x, count) ==
    IF x >= GridSize \/ Len(st.harvested) >= count THEN st
    ELSE LET crop == st.crops[y][x]
         IN  IF crop # None /\ crop.state = "READY"
             THEN HarvestRow([crops      |-> [st.crops EXCEPT ![y][x] = None],
                              field_grid |-> [st.field_grid EXCEPT ![y][x] = "."],
                              harvested  |-> Append(st.harvested, crop.template.crop),
                              visited    |-> st.visited + 1],
                             y, x + 1, count)
             ELSE HarvestRow([st EXCEPT !.visited = @ + 1], y, x + 1, count)

\* for y in range(10) of harvest_crops, from row y on
RECURSIVE HarvestCropsLoop(_, _, _)
HarvestCropsLoop(st, y, count) ==
    IF y >= GridSize THEN st
    ELSE LET after == HarvestRow(st, y, 0, count)
         IN  IF Len(after.harvested) >= count THEN after
             ELSE HarvestCropsLoop(after, y + 1, count)

harvest_crops(count) ==
    /\ last' = Op("harvest_crops", "", count, 0, 0)
    /\ UNCHANGED animals
    /\ LET r == HarvestCropsLoop([crops |-> crops, field_grid |-> field_grid,
                                   harvested |-> << >>, visited |-> 0], 0, count)
       IN  /\ crops' = r.crops
           /\ field_grid' = r.field_grid
           /\ indexed' = Scanned(r.visited)
           /\ result' = IF Len(r.harvested) > 0
                        THEN [success |-> TRUE, message |-> "Successfully harvested crops",
                              crops |-> r.harvested, count |-> Len(r.harvested)]
                        ELSE [success |-> FALSE, message |-> "No ready crops to harvest"]

NotReady_Never(crop) == FALSE

\* crop.state != CropState.READY
NotReady(crop) == crop.state # "READY"

harvest_crop(x, y) ==
    /\ last' = Op("harvest_crop", "", 0, x, y)
    /\ UNCHANGED animals
    /\ IF ~ InRange(x, y)
       THEN /\ result' = [success |-> FALSE, message |-> "Invalid coordinates"]
            /\ indexed' = {}
            /\ UNCHANGED <<crops, field_grid>>
       ELSE LET crop == crops[PyIndex(y)][PyIndex(x)]
            IN  /\ indexed' = {<<PyIndex(x), PyIndex(y)>>}
                /\ IF crop = None
                   THEN /\ result' = [success |-> FALSE,
                                      message |-> "No crop at this location"]
                        /\ UNCHANGED <<crops, field_grid>>
                   ELSE IF NotReady(crop)
                   THEN /\ result' = [success |-> FALSE,
                                      message |-> "Crop is not ready for harvest"]
                        /\ UNCHANGED <<crops, field_grid>>
                   ELSE /\ crops' = [crops EXCEPT ![PyIndex(y)][PyIndex(x)] = None]
                        /\ field_grid' = [field_grid EXCEPT ![PyIndex(y)][PyIndex(x)] = "."]
                        /\ result' = [success |-> TRUE,
                                      message |-> "Successfully harvested at",
                                      crop |-> crop.template.crop]

-----------------------------------------------------------------------------
(* Queries *)

CountState(pool, state) == Cardinality({i \in DOMAIN pool : pool[i].state = state})

get_animal_status ==
    [a \in DOMAIN animals |->
        [idle    |-> CountState(animals[a], "IDLE"),
         growing |-> CountState(animals[a], "GROWING"),
         mature  |-> CountState(animals[a], "MATURE")]]

\* the state get_crop_status counts a cell under: None is an empty patch
PatchState(crop) == IF crop = None THEN "EMPTY" ELSE crop.state

-----------------------------------------------------------------------------
(* Construction: FarmCore.__init__ *)

EmptyGrid(v) == [y \in Rows |-> [x \in Rows |-> v]]

Constructed(barn, farm) ==
    /\ animal_templates = load_animal_data(barn).templates
    /\ crop_templates = load_crop_data(farm).templates
    /\ load_failed = (load_animal_data(barn).failed \/ load_crop_data(farm).failed)
    /\ animals = initialize_animals(load_animal_data(barn).templates)
    /\ crops = EmptyGrid(None)
    /\ field_grid = EmptyGrid(".")
    /\ result = NoResult
    /\ last = Op("init", "", 0, 0, 0)
    /\ indexed = {}
    /\ since = EmptyGrid(0)
    /\ fed_since = [a \in DOMAIN animals |-> [i \in DOMAIN animals[a] |-> 0]]
    /\ calls = 0
    /\ ticks = 0
    /\ callbacks = << >>
    /\ invoked = << >>
    /\ loop_pc = 0

\* the object alone: its game loop runs in an event loop that gets its turn
\* between the calls
Init ==
    /\ \E files \in Installations : Constructed(files.barn, files.farm)
    /\ main_pc = "none"
    /\ game_task = "sleeping"
    /\ cancel_requested = FALSE

-----------------------------------------------------------------------------
(* Arguments the commands are called with *)

AnimalArgs == {"cow", "chicken", "dragon"}
CropArgs == {"wheat", "corn", "weed"}
CountArgs == {-1, 0, 1, PoolSize}
GridCountArgs == {-1, 0, 1, GridSize * GridSize}
\* <<x, y>>: two cells of the grid, and each bound of the range broken alone
CoordArgs == { <<0, 0>>, <<GridSize - 1, 0>>,
               <<-1, 0>>, <<0, -1>>, <<GridSize, 0>>, <<0, GridSize>> }

\* one call: it runs in the thread of the event loop, so only while the
\* game_loop task is suspended; the call is counted, the ages follow the grid
Called ==
    /\ Suspended
    /\ calls' = calls + 1
    /\ since' = IF crops' = crops THEN since
                ELSE [j \in Rows |-> [i \in Rows |->
                        IF crops'[j][i] = None \/ crops[j][i] = None THEN 0
                        ELSE since[j][i]]]
    /\ fed_since' = IF animals' = animals THEN fed_since
                    ELSE [a \in DOMAIN animals |-> [i \in DOMAIN animals[a] |->
                            IF animals'[a][i].state = "GROWING"
                               /\ animals[a][i].state = "GROWING"
                            THEN fed_since[a][i] ELSE 0]]
    /\ UNCHANGED <<animal_templates, crop_templates, load_failed, ticks,
                   callbacks, invoked, loop_pc>>

FeedAnimals ==
    /\ main_pc = "none" /\ calls < MaxCalls
    /\ \E a \in AnimalArgs, c \in CountArgs : feed_animals(a, c)
    /\ Called
    /\ UNCHANGED <<main_pc, game_task, cancel_requested>>

HarvestAnimals ==
    /\ main_pc = "none" /\ calls < MaxCalls
    /\ \E a \in AnimalArgs, c \in CountArgs : harvest_animals(a, c)
    /\ Called
    /\ UNCHANGED <<main_pc, game_task, cancel_requested>>

PlantCrops ==
    /\ main_pc = "none" /\ calls < MaxCalls
    /\ \E c \in GridCountArgs, t \in CropArgs : plant_crops(c, t)
    /\ Called
    /\ UNCHANGED <<main_pc, game_task, cancel_requested>>

PlantCrop ==
    /\ main_pc = "none" /\ calls < MaxCalls
    /\ \E c \in CoordArgs, t \in CropArgs : plant_crop(c[1], c[2], t)
    /\ Called
    /\ UNCHANGED <<main_pc, game_task, cancel_requested>>

HarvestCrops ==
    /\ main_pc = "none" /\ calls < MaxCalls
    /\ \E c \in GridCountArgs : harvest_crops(c)
    /\ Called
    /\ UNCHANGED <<main_pc, game_task, cancel_requested>>

HarvestCrop ==
    /\ main_pc = "none" /\ calls < MaxCalls
    /\ \E c \in CoordArgs : harvest_crop(c[1], c[2])
    /\ Called
    /\ UNCHANGED <<main_pc, game_task, cancel_requested>>

-----------------------------------------------------------------------------
(* The game loop task *)

\* the ages after a pass over the pools: a slot still GROWING is one tick
\* older, any other slot has no age
Aged(before, after, ages) ==
    [a \in DOMAIN before |-> [i \in DOMAIN before[a] |->
        IF before[a][i].state = "GROWING" /\ after[a][i].state = "GROWING"
        THEN ages[a][i] + 1 ELSE 0]]

\* one pass of the loop body after the sleep: _update_animals, _update_crops,
\* _notify_callbacks
tick ==
    /\ animals' = update_animals(animals)
    /\ crops' = update_crops(crops, field_grid).crops
    /\ field_grid' = update_crops(crops, field_grid).field_grid
    /\ since' = [j \in Rows |-> [i \in Rows |->
                    IF crops[j][i] = None THEN 0 ELSE since[j][i] + 1]]
    /\ fed_since' = Aged(animals, animals', fed_since)
    /\ invoked' = notify_callbacks(callbacks, {"update_animals", "update_crops"}).invoked
    /\ last' = Op("tick", "", 0, 0, 0)
    /\ ticks' = ticks + 1

\* one turn of the task in the event loop.  A task cancelled before its first
\* turn, or while it sleeps, ends there; a new task runs up to its first
\* sleep; a sleeping one wakes, runs the loop body and sleeps again.
game_loop ==
    IF cancel_requested
    THEN /\ game_task' = "cancelled"
         /\ UNCHANGED <<animals, crops, field_grid, since, fed_since, last, ticks,
                        invoked>>
    ELSE IF game_task = "created"
    THEN /\ game_task' = "sleeping"
         /\ UNCHANGED <<animals, crops, field_grid, since, fed_since, last, ticks,
                        invoked>>
    ELSE /\ tick
         /\ game_task' = "sleeping"

\* the event loop gives the task a turn only while no other coroutine is
\* running: main() must be suspended at an await (or there is no main())
GameLoop ==
    /\ main_pc \in {"none", "awaiting"}
    /\ game_task \in {"created", "sleeping"}
    /\ ticks < MaxTicks
    /\ game_loop
    /\ UNCHANGED <<result, indexed, animal_templates, crop_templates, load_failed,
                   calls, main_pc, cancel_requested, callbacks, loop_pc>>

Next ==
    \/ FeedAnimals
    \/ HarvestAnimals
    \/ PlantCrops
    \/ PlantCrop
    \/ HarvestCrops
    \/ HarvestCrop
    \/ GameLoop

Spec == Init /\ [][Next]_vars

\* barn.csv and farm.csv as a user may have written them: the installations
\* above, a duration int() reads as negative, and a second row whose
\* seconds cell int() rejects
CsvFiles ==
    Installations \cup
    { [barn |-> << AnimalTemplate("cow", 0, -2, "milk"), AnimalTemplate("chicken", 0, 1, "egg") >>,
       farm |-> << CropTemplate("wheat", 0, -2), CropTemplate("corn", 0, 1) >>],
      [barn |-> << AnimalTemplate("cow", 0, 1, "milk"), BadRow("ValueError"),
                   AnimalTemplate("chicken", 0, 1, "egg") >>,
       farm |-> << CropTemplate("wheat", 0, 1), BadRow("ValueError"),
                   CropTemplate("corn", 0, 1) >>] }

LoadInit ==
    /\ \E files \in CsvFiles : Constructed(files.barn, files.farm)
    /\ main_pc = "none"
    /\ game_task = "sleeping"
    /\ cancel_requested = FALSE

\* the object on any files the loaders read
LoadSpec == LoadInit /\ [][Next]_vars

-----------------------------------------------------------------------------
(* The game loop statement by statement, beside a front end that shares    *)
(* its event loop: it registers callbacks, calls commands and at shutdown  *)
(* cancels the task.                                                       *)

\* self.callbacks.append(callback)
register_callback(callback) == callbacks' = Append(callbacks, callback)

RegisterCallback ==
    /\ Suspended /\ ~ cancel_requested
    /\ Len(callbacks) < MaxCallbacks
    /\ \E callback \in CallbackKinds : register_callback(callback)
    /\ UNCHANGED <<animals, crops, field_grid, animal_templates, crop_templates,
                   load_failed, result, last, indexed, since, fed_since, calls, ticks, main_pc,
                   game_task, cancel_requested, invoked, loop_pc>>

\* the commands the front end calls
FrontEndCall ==
    /\ ~ cancel_requested /\ calls < MaxCalls
    /\ \/ feed_animals("cow", 1)
       \/ harvest_animals("cow", 1)
       \/ plant_crop(0, 0, "wheat")
       \/ harvest_crop(0, 0)
    /\ Called
    /\ UNCHANGED <<main_pc, game_task, cancel_requested>>

\* asyncio.sleep(1) returns: the next iteration of the loop body begins
LoopWake ==
    /\ game_task = "sleeping" /\ loop_pc = 0
    /\ ~ cancel_requested
    /\ ticks < MaxTicks
    /\ loop_pc' = 1
    /\ invoked' = << >>
    /\ UNCHANGED <<animals, crops, field_grid, animal_templates, crop_templates,
                   load_failed, result, last, indexed, since, fed_since, calls, ticks, main_pc,
                   game_task, cancel_requested, callbacks>>

\* one statement of the loop body
run_statement(statement) ==
    CASE statement = "update_animals" ->
            /\ animals' = update_animals(animals)
            /\ fed_since' = Aged(animals, animals', fed_since)
            /\ UNCHANGED <<crops, field_grid, since, invoked>>
      [] statement = "update_crops" ->
            /\ crops' = update_crops(crops, field_grid).crops
            /\ field_grid' = update_crops(crops, field_grid).field_grid
            /\ since' = [j \in Rows |-> [i \in Rows |->
                            IF crops[j][i] = None THEN 0 ELSE since[j][i] + 1]]
            /\ UNCHANGED <<animals, fed_since, invoked>>
      [] statement = "notify_callbacks" ->
            /\ invoked' = notify_callbacks(callbacks, Executed).invoked
            /\ UNCHANGED <<animals, crops, field_grid, since, fed_since>>

\* the task runs the statement at loop_pc; after the last one it is back at
\* the sleep, and an exception leaving a statement ends the task
LoopStep ==
    /\ game_task = "sleeping" /\ loop_pc \in DOMAIN LoopBody
    /\ LET statement == LoopBody[loop_pc]
           raised    == /\ statement = "notify_callbacks"
                        /\ notify_callbacks(callbacks, Executed).propagated
       IN  /\ run_statement(statement)
           /\ last' = Op(statement, "", 0, 0, 0)
           /\ IF raised
              THEN /\ game_task' = "failed"
                   /\ loop_pc' = 0
                   /\ ticks' = ticks
              ELSE /\ game_task' = game_task
                   /\ loop_pc' = IF loop_pc = Len(LoopBody) THEN 0 ELSE loop_pc + 1
                   /\ ticks' = IF loop_pc = Len(LoopBody) THEN ticks + 1 ELSE ticks
    /\ UNCHANGED <<animal_templates, crop_templates, load_failed, result, indexed,
                   calls, main_pc, cancel_requested, callbacks>>

\* shutdown: the front end calls game_task.cancel() and calls nothing more
Shutdown ==
    /\ Suspended /\ ~ cancel_requested
    /\ game_task = "sleeping"
    /\ cancel_requested' = TRUE
    /\ UNCHANGED <<animals, crops, field_grid, animal_templates, crop_templates,
                   load_failed, result, last, indexed, since, fed_since, calls, ticks, main_pc,
                   game_task, callbacks, invoked, loop_pc>>

\* CancelledError is raised in the task at the await it is suspended at
LoopCancelled ==
    /\ cancel_requested /\ Suspended
    /\ game_task = "sleeping"
    /\ game_task' = "cancelled"
    /\ UNCHANGED <<animals, crops, field_grid, animal_templates, crop_templates,
                   load_failed, result, last, indexed, since, fed_since, calls, ticks, main_pc,
                   cancel_requested, callbacks, invoked, loop_pc>>

LoopNext ==
    \/ RegisterCallback
    \/ FrontEndCall
    \/ LoopWake
    \/ LoopStep
    \/ Shutdown
    \/ LoopCancelled

LoopSpec == Init /\ [][LoopNext]_vars

-----------------------------------------------------------------------------
(* FarmCLI.run.  A command line is the list input().strip().split() gives: *)
(* a sequence of tokens, each token the sequence of its characters.         *)

DigitValue ==
    [c \in {"0", "1", "2", "3", "4", "5", "6", "7", "8", "9"} |->
        CASE c = "0" -> 0 [] c = "1" -> 1 [] c = "2" -> 2 [] c = "3" -> 3 [] c = "4" -> 4
          [] c = "5" -> 5 [] c = "6" -> 6 [] c = "7" -> 7 [] c = "8" -> 8 [] c = "9" -> 9]

\* str.isdigit(): non-empty, digits only (a sign is no digit)
isdigit(token) ==
    /\ Len(token) > 0
    /\ \A i \in 1 .. Len(token) : token[i] \in DOMAIN DigitValue

RECURSIVE DigitsValue(_, _)
DigitsValue(token, acc) ==
    IF token = << >> THEN acc
    ELSE DigitsValue(Tail(token), acc * 10 + DigitValue[Head(token)])

\* int(token): an optional sign and digits; anything else raises ValueError
ParseInt(token) ==
    IF isdigit(token) THEN [ok |-> TRUE, value |-> DigitsValue(token, 0)]
    ELSE IF Len(token) > 1 /\ token[1] \in {"-", "+"} /\ isdigit(Tail(token))
    THEN [ok |-> TRUE,
          value |-> IF token[1] = "-" THEN 0 - DigitsValue(Tail(token), 0)
                    ELSE DigitsValue(Tail(token), 0)]
    ELSE [ok |-> FALSE]

\* the token as the str the farm's dicts are keyed with
RECURSIVE Text(_)
Text(token) == IF token = << >> THEN "" ELSE Head(token) \o Text(Tail(token))

\* command[i], Python's index
Arg(command, i) == command[i + 1]

\* the branch printed a usage line, an error or a report: the farm is untouched
Printed ==
    /\ last' = Op("print", "", 0, 0, 0)
    /\ UNCHANGED <<animals, crops, field_grid, result, indexed>>

\* the body of the while loop for one command line other than quit; the
\* command word is typed in lower case, as command[0].lower() leaves it.
\* A ValueError of int() outside the inner try is caught by the loop's
\* except Exception, which prints it.
cli_run(command) ==
    LET cmd == Text(Arg(command, 0))
        n   == Len(command)
    IN  IF cmd = "feed"
        THEN IF n >= 3 /\ ParseInt(Arg(command, 2)).ok
             THEN feed_animals(Text(Arg(command, 1)), ParseInt(Arg(command, 2)).value)
             ELSE Printed
        ELSE IF cmd = "harvest" /\ n >= 2
        THEN IF isdigit(Arg(command, 1))
             THEN harvest_crops(ParseInt(Arg(command, 1)).value)
             ELSE IF n >= 3
             THEN IF ParseInt(Arg(command, 1)).ok /\ ParseInt(Arg(command, 2)).ok
                  THEN harvest_crop(ParseInt(Arg(command, 1)).value,
                                    ParseInt(Arg(command, 2)).value)
                  ELSE IF ParseInt(Arg(command, 2)).ok
                  THEN harvest_animals(Text(Arg(command, 1)),
                                       ParseInt(Arg(command, 2)).value)
                  ELSE Printed
             ELSE Printed
        ELSE IF cmd = "plant"
        THEN IF n >= 3 /\ isdigit(Arg(command, 1)) /\ isdigit(Arg(command, 2))
             THEN plant_crop(ParseInt(Arg(command, 1)).value,
                             ParseInt(Arg(command, 2)).value,
                             IF n > 3 THEN Text(Arg(command, 3)) ELSE "wheat")
             ELSE IF n >= 3 /\ ParseInt(Arg(command, 1)).ok
             THEN plant_crops(ParseInt(Arg(command, 1)).value, Text(Arg(command, 2)))
             ELSE Printed
        ELSE Printed

\* words and numbers the user types
W_feed == <<"f", "e", "e", "d">>
W_harvest == <<"h", "a", "r", "v", "e", "s", "t">>
W_plant == <<"p", "l", "a", "n", "t">>
W_status == <<"s", "t", "a", "t", "u", "s">>
W_cow == <<"c", "o", "w">>
W_dragon == <<"d", "r", "a", "g", "o", "n">>
W_wheat == <<"w", "h", "e", "a", "t">>
W_corn == <<"c", "o", "r", "n">>

CommandLines ==
    { <<W_feed, W_cow, <<"1">>>>, <<W_feed, W_cow, <<"6">>>>, <<W_feed, W_dragon, <<"1">>>>,
      <<W_feed, W_cow>>, <<W_feed, W_cow, W_cow>>,
      <<W_harvest, W_cow, <<"1">>>>, <<W_harvest, <<"1">>>>, <<W_harvest>>,
      <<W_harvest, <<"0">>, <<"0">>>>, <<W_harvest, <<"-", "1">>, <<"0">>>>,
      <<W_plant, <<"1">>, W_wheat>>, <<W_plant, <<"1", "0", "0">>, W_corn>>,
      <<W_plant, <<"0">>, <<"0">>, W_corn>>, <<W_plant, <<"9">>, <<"0">>>>,
      <<W_plant, W_wheat>>,
      <<W_status>> }

-----------------------------------------------------------------------------
(* main(): FarmCore(), create_task(farm.game_loop()), cli.run(), and in the *)
(* finally clause game_task.cancel() and await game_task.                   *)

DefaultFiles == [barn |-> DefaultBarnCsv, farm |-> DefaultFarmCsv]

\* main() has run up to cli.run(): the task is created and has had no turn
MainInit ==
    /\ \E files \in Installations \cup {DefaultFiles} :
            Constructed(files.barn, files.farm)
    /\ main_pc = "cli"
    /\ game_task = "created"
    /\ cancel_requested = FALSE

\* cli.run() reads a line with input() and runs it; it returns to input()
\* without awaiting anything
CliCommand ==
    /\ main_pc = "cli" /\ calls < MaxCalls
    /\ \E command \in CommandLines : cli_run(command)
    /\ Called
    /\ UNCHANGED <<main_pc, game_task, cancel_requested>>

\* quit, or KeyboardInterrupt: the read loop breaks and cli.run() returns
CliQuit ==
    /\ main_pc = "cli"
    /\ main_pc' = "finally"
    /\ UNCHANGED <<animals, crops, field_grid, animal_templates, crop_templates,
                   load_failed, result, last, indexed, since, fed_since, calls, ticks, game_task,
                   cancel_requested, callbacks, invoked, loop_pc>>

\* finally: game_task.cancel(), then main() suspends at await game_task
MainCancel ==
    /\ main_pc = "finally"
    /\ cancel_requested' = TRUE
    /\ main_pc' = "awaiting"
    /\ UNCHANGED <<animals, crops, field_grid, animal_templates, crop_templates,
                   load_failed, result, last, indexed, since, fed_since, calls, ticks, game_task,
                   callbacks, invoked, loop_pc>>

\* the awaited task has ended: CancelledError is caught and main() returns
MainDone ==
    /\ main_pc = "awaiting"
    /\ game_task = "cancelled"
    /\ main_pc' = "done"
    /\ UNCHANGED <<animals, crops, field_grid, animal_templates, crop_templates,
                   load_failed, result, last, indexed, since, fed_since, calls, ticks, game_task,
                   cancel_requested, callbacks, invoked, loop_pc>>

MainNext ==
    \/ CliCommand
    \/ CliQuit
    \/ MainCancel
    \/ GameLoop
    \/ MainDone

MainSpec == MainInit /\ [][MainNext]_vars

\* the event loop runs every ready task and resumes main() when what it
\* awaits is done; the finally clause runs once cli.run() has returned.
\* What the user types, and when, is not the program's to decide.
FairMainSpec ==
    /\ MainSpec
    /\ WF_vars(MainCancel)
    /\ WF_vars(GameLoop)
    /\ WF_vars(MainDone)

-----------------------------------------------------------------------------
(* Properties *)

CommandOps == {"feed_animals", "harvest_animals", "plant_crops", "plant_crop",
               "harvest_crops", "harvest_crop"}

Min(a, b) == IF a < b THEN a ELSE b

\* C1: in every reachable state each species pool holds exactly 6 slots and
\* the counts of get_animal_status add up: idle + growing + mature = 6.
C1_PoolCapacity ==
    \A a \in DOMAIN animals :
        /\ DOMAIN animals[a] = 0 .. 5
        /\ get_animal_status[a].idle + get_animal_status[a].growing
             + get_animal_status[a].mature = 6

\* a pool with slots in all three states
C1_Witness ==
    \E a \in DOMAIN animals :
        /\ get_animal_status[a].idle > 0
        /\ get_animal_status[a].growing > 0
        /\ get_animal_status[a].mature > 0

\* C2: a slot changes state only IDLE -> GROWING by feed_animals,
\* GROWING -> MATURE by a tick, MATURE -> IDLE by harvest_animals; no single
\* operation skips a state, a species of duration 0 included.
C2_SlotTransitions ==
    [][\A a \in DOMAIN animals : \A i \in DOMAIN animals[a] :
          animals'[a][i].state # animals[a][i].state =>
             <<animals[a][i].state, animals'[a][i].state, last'.op>> \in
                { <<"IDLE", "GROWING", "feed_animals">>,
                  <<"GROWING", "MATURE", "tick">>,
                  <<"MATURE", "IDLE", "harvest_animals">> }]_vars

\* a slot of a species of duration 0 has gone round: fed, matured by a tick,
\* harvested
C2_Witness ==
    /\ last.op = "harvest_animals"
    /\ result.success
    /\ animal_templates[last.name].minutes * 60 + animal_templates[last.name].seconds = 0
    /\ animals[last.name][0].state = "IDLE"

\* C3: a patch planted with a crop of duration D >= 1: harvest_crop(x, y)
\* fails with 'not ready' and changes nothing while fewer than D ticks have
\* run since the planting; once exactly D ticks have run it succeeds,
\* returns the crop's identifier and leaves the patch empty.
C3_HarvestAfterDuration ==
    [][(/\ last'.op = "harvest_crop"
        /\ last'.x \in Rows /\ last'.y \in Rows
        /\ crops[last'.y][last'.x] # None
        /\ crops[last'.y][last'.x].template.minutes * 60
             + crops[last'.y][last'.x].template.seconds >= 1)
       => LET patch == crops[last'.y][last'.x]
              D     == patch.template.minutes * 60 + patch.template.seconds
              age   == since[last'.y][last'.x]
          IN  /\ age < D =>
                    /\ ~ result'.success
                    /\ result'.message = "Crop is not ready for harvest"
                    /\ crops' = crops
                    /\ field_grid' = field_grid
              /\ age = D =>
                    /\ result'.success
                    /\ result'.crop = patch.template.crop
                    /\ crops'[last'.y][last'.x] = None]_vars

\* a crop of duration 2 harvested at its coordinates
C3_Witness ==
    /\ last.op = "harvest_crop"
    /\ result.success
    /\ crop_templates[result.crop].minutes * 60 + crop_templates[result.crop].seconds = 2
    /\ crops[last.y][last.x] = None
    /\ ticks = 2


\* C4: in the program main() starts, time advances while the CLI waits for
\* and runs commands: every slot fed through the CLI eventually becomes
\* MATURE and every patch planted through it eventually becomes READY
\* (stated for the cow pool and the patches (0, 0) and (9, 0), which the
\* command lines feed and plant).
C4_TimeAdvancesUnderCli ==
    /\ \A i \in Slots :
          (animals["cow"][i].state = "GROWING") ~> (animals["cow"][i].state = "MATURE")
    /\ \A c \in {<<0, 0>>, <<GridSize - 1, 0>>} :
          (crops[c[2]][c[1]] # None /\ crops[c[2]][c[1]].state = "PLANTED")
             ~> (crops[c[2]][c[1]] # None /\ crops[c[2]][c[1]].state = "READY")

\* C5: feed_animals(species, count), species known and count > 0, moves
\* exactly min(count, idle slots) slots to GROWING, the IDLE slots of lowest
\* index, each with timer minutes*60+seconds of the species template,
\* returns that number and leaves every other slot as it was.
C5_FeedAnimals ==
    [][(/\ last'.op = "feed_animals"
        /\ last'.name \in DOMAIN animals
        /\ last'.count > 0)
       => LET pool   == animals[last'.name]
              tpl    == animal_templates[last'.name]
              idle   == {i \in DOMAIN pool : pool[i].state = "IDLE"}
              n      == Min(last'.count, Cardinality(idle))
              chosen == {i \in idle : Cardinality({j \in idle : j < i}) < n}
          IN  /\ result'.success
              /\ result'.count = n
              /\ \A i \in DOMAIN pool :
                    IF i \in chosen
                    THEN /\ animals'[last'.name][i].state = "GROWING"
                         /\ animals'[last'.name][i].timer = tpl.minutes * 60 + tpl.seconds
                    ELSE animals'[last'.name][i] = pool[i]
              /\ \A a \in DOMAIN animals \ {last'.name} : animals'[a] = animals[a]]_vars

\* a pool fed in full, then feed_animals(species, 1) feeding 0
C5_Witness ==
    /\ last.op = "feed_animals"
    /\ last.count = 1
    /\ result.success
    /\ result.count = 0
    /\ \A i \in Slots : animals[last.name][i].state = "GROWING"

\* C6: harvest_crops(count > 0) with no READY patch, and
\* harvest_animals(species, count > 0) on a known species with no MATURE
\* slot, return success = true with a harvested count of 0, and change nothing.
C6_ZeroEffectIsSuccess ==
    [][(\/ /\ last'.op = "harvest_crops"
           /\ last'.count > 0
           /\ \A y \in Rows, x \in Rows : crops[y][x] = None \/ crops[y][x].state # "READY"
        \/ /\ last'.op = "harvest_animals"
           /\ last'.name \in DOMAIN animals
           /\ last'.count > 0
           /\ \A i \in Slots : animals[last'.name][i].state # "MATURE")
       => /\ result'.success
          /\ result'.count = 0
          /\ UNCHANGED farm_vars]_vars

\* C7: feed_animals(species, count) and plant_crops(count, crop_type) with
\* count <= 0 return success = false and change nothing.
C7_NonPositiveCountFails ==
    [][(last'.op \in {"feed_animals", "plant_crops"} /\ last'.count <= 0)
       => (~ result'.success /\ UNCHANGED farm_vars)]_vars

\* C8: a command that returns success = false leaves the animal pools, the
\* crop grid and field_grid as they were.
C8_FailureChangesNothing ==
    [][(last'.op \in CommandOps /\ ~ result'.success) => UNCHANGED farm_vars]_vars

\* harvest_crop refused on a patch still PLANTED, which stays PLANTED
C8_Witness ==
    /\ last.op = "harvest_crop"
    /\ ~ result.success
    /\ result.message = "Crop is not ready for harvest"
    /\ crops[last.y][last.x].state = "PLANTED"
    /\ field_grid[last.y][last.x] # "."

\* C9: plant_crop(x, y, crop_type) succeeds iff 0 <= x < 10, 0 <= y < 10,
\* the crop is known and the patch is EMPTY; on success that patch alone
\* becomes PLANTED with the template's duration; a PLANTED or READY patch is
\* never reset; out-of-range coordinates fail with no cell indexed.
C9_PlantCrop ==
    [][last'.op = "plant_crop"
       => LET x   == last'.x
              y   == last'.y
              inr == 0 <= x /\ x < 10 /\ 0 <= y /\ y < 10
              ok  == /\ inr
                     /\ last'.name \in DOMAIN crop_templates
                     /\ crops[y][x] = None
          IN  /\ result'.success = ok
              /\ ok => /\ crops'[y][x].state = "PLANTED"
                       /\ crops'[y][x].timer =
                            crop_templates[last'.name].minutes * 60
                              + crop_templates[last'.name].seconds
                       /\ crops'[y][x].template = crop_templates[last'.name]
                       /\ \A j \in Rows, i \in Rows :
                             <<i, j>> # <<x, y>> => crops'[j][i] = crops[j][i]
              /\ ~ ok => crops' = crops
              /\ ~ inr => indexed' = {}]_vars

\* plant_crop refused on a READY patch, which stays READY
C9_Witness ==
    /\ last.op = "plant_crop"
    /\ ~ result.success
    /\ result.message = "Patch already occupied"
    /\ crops[last.y][last.x].state = "READY"

\* C10: harvest_crop(x, y) succeeds iff 0 <= x < 10, 0 <= y < 10 and the
\* patch is READY; it then returns the identifier of the crop planted there
\* and the patch becomes None; an EMPTY or PLANTED patch gives a failed result.
C10_HarvestCrop ==
    [][last'.op = "harvest_crop"
       => LET x   == last'.x
              y   == last'.y
              inr == 0 <= x /\ x < 10 /\ 0 <= y /\ y < 10
              ok  == inr /\ crops[y][x] # None /\ crops[y][x].state = "READY"
          IN  /\ result'.success = ok
              /\ ok => /\ result'.crop = crops[y][x].template.crop
                       /\ crops'[y][x] = None
              /\ (inr /\ crops[y][x] = None) => ~ result'.success
              /\ (inr /\ crops[y][x] # None /\ crops[y][x].state = "PLANTED")
                    => ~ result'.success]_vars

\* the READY patch at (9, 0) harvested
C10_Witness ==
    /\ last.op = "harvest_crop"
    /\ last.x = 9 /\ last.y = 0
    /\ result.success
    /\ result.crop \in DOMAIN crop_templates
    /\ crops[0][9] = None
    /\ field_grid[0][9] = "."

\* C11: in every reachable state a patch is EMPTY exactly when its grid cell
\* is None; every PLANTED or READY patch holds the template of the crop type
\* it was planted with (the template of that type when a command plants it,
\* the same template for as long as the patch stays occupied); every GROWING
\* slot holds the template of its species.
C11_TemplatesHeld ==
    /\ [](/\ \A y \in Rows, x \in Rows :
              /\ PatchState(crops[y][x]) = "EMPTY" <=> crops[y][x] = None
              /\ PatchState(crops[y][x]) \in {"PLANTED", "READY"} =>
                    /\ crops[y][x].template.crop \in DOMAIN crop_templates
                    /\ crops[y][x].template = crop_templates[crops[y][x].template.crop]
           /\ \A a \in DOMAIN animals : \A i \in DOMAIN animals[a] :
                 animals[a][i].state = "GROWING" =>
                    animals[a][i].template = animal_templates[a])
    /\ [][crops' # crops =>
            \A y \in Rows, x \in Rows :
               (crops'[y][x] # crops[y][x] /\ PatchState(crops'[y][x]) \in {"PLANTED", "READY"}) =>
                  IF PatchState(crops[y][x]) = "EMPTY"
                  THEN /\ last'.op \in {"plant_crop", "plant_crops"}
                       /\ crops'[y][x].template = crop_templates[last'.name]
                  ELSE crops'[y][x].template = crops[y][x].template]_vars

\* READY wheat patches beside the patch (0, 0) harvested back to None
C11_Witness ==
    /\ \E y \in Rows, x \in Rows :
          /\ PatchState(crops[y][x]) = "READY"
          /\ crops[y][x].template = crop_templates["wheat"]
    /\ last.op = "harvest_crops" /\ result.success
    /\ crops[0][0] = None

\* C12: harvest_animals(species, count), species known and count > 0, resets
\* exactly min(count, MATURE slots) slots to IDLE with timer 0, the MATURE
\* slots of lowest index; it leaves every IDLE and GROWING slot untouched and,
\* when at least one slot was harvested, returns the species' product and
\* that number.
C12_HarvestAnimals ==
    [][(/\ last'.op = "harvest_animals"
        /\ last'.name \in DOMAIN animals
        /\ last'.count > 0)
       => LET pool   == animals[last'.name]
              mature == {i \in DOMAIN pool : pool[i].state = "MATURE"}
              n      == Min(last'.count, Cardinality(mature))
              chosen == {i \in mature : Cardinality({j \in mature : j < i}) < n}
          IN  /\ \A i \in DOMAIN pool :
                    IF i \in chosen
                    THEN /\ animals'[last'.name][i].state = "IDLE"
                         /\ animals'[last'.name][i].timer = 0
                    ELSE animals'[last'.name][i] = pool[i]
              /\ \A a \in DOMAIN animals \ {last'.name} : animals'[a] = animals[a]
              /\ n >= 1 => /\ result'.success
                           /\ result'.product = animal_templates[last'.name].product
                           /\ result'.count = n]_vars

\* harvest_animals(species, 1) on a pool of six MATURE slots: slot 0 is IDLE
\* again, the five others still MATURE
C12_Witness ==
    /\ last.op = "harvest_animals"
    /\ last.count = 1
    /\ result.success /\ result.count = 1
    /\ animals[last.name][0].state = "IDLE"
    /\ \A i \in 1 .. (PoolSize - 1) : animals[last.name][i].state = "MATURE"

\* the place of the cell <<x, y>> in the row-major scan (y outer, x inner)
RowMajor(c) == c[2] * GridSize + c[1]

\* C13: plant_crops(count, crop_type), crop known and count > 0, plants
\* min(count, EMPTY patches) patches, the first EMPTY ones in row-major order
\* (y outer, x inner), each PLANTED with the template's duration as timer; it
\* returns success with that number (0 when the grid is full) and leaves
\* every PLANTED and READY patch unchanged.
C13_PlantCrops ==
    [][(/\ last'.op = "plant_crops"
        /\ last'.name \in DOMAIN crop_templates
        /\ last'.count > 0)
       => LET empty   == {c \in Rows \X Rows : crops[c[2]][c[1]] = None}
              changed == {c \in Rows \X Rows : crops'[c[2]][c[1]] # crops[c[2]][c[1]]}
              tpl     == crop_templates[last'.name]
          IN  /\ changed \subseteq empty
              /\ Cardinality(changed) = Min(last'.count, Cardinality(empty))
              /\ \A c \in changed :
                    /\ crops'[c[2]][c[1]].state = "PLANTED"
                    /\ crops'[c[2]][c[1]].timer = tpl.minutes * 60 + tpl.seconds
                    /\ crops'[c[2]][c[1]].template = tpl
              /\ \A e \in empty \ changed : \A c \in changed : RowMajor(c) < RowMajor(e)
              /\ result'.success
              /\ result'.count = Cardinality(changed)]_vars

\* plant_crops(1, crop) with patch (0, 0) occupied: the patch x = 1, y = 0 is
\* planted, (0, 0) is as it was and x = 0, y = 1 is still empty
C13_Witness ==
    /\ last.op = "plant_crops"
    /\ last.count = 1
    /\ result.success /\ result.count = 1
    /\ crops[0][0] # None /\ crops[0][0].template.crop # last.name
    /\ crops[0][1] # None /\ crops[0][1].template.crop = last.name
    /\ crops[1][0] = None

\* plant_crops on a full grid: success with 0 planted
PlantOnFullGrid ==
    /\ last.op = "plant_crops" /\ last.count > 0
    /\ result.success /\ result.count = 0
    /\ \A y \in Rows, x \in Rows : crops[y][x] # None

C15_TickTimers ==
    [][last'.op = "tick" /\ ticks' = ticks + 1
       => /\ \A a \in DOMAIN animals : \A i \in DOMAIN animals[a] :
                LET old == animals[a][i]
                    new == animals'[a][i]
                IN  IF old.state = "GROWING"
                    THEN /\ new.state \in {"GROWING", "MATURE"}
                         /\ new.state = "GROWING" => new.timer = old.timer - 1
                         /\ old.timer - 1 = 0 => new.state = "MATURE"
                         /\ new.state = "MATURE" => old.timer - 1 <= 0
                         /\ new.template = old.template
                    ELSE new = old
          /\ \A y \in Rows, x \in Rows :
                LET old == crops[y][x]
                    new == crops'[y][x]
                IN  IF PatchState(old) = "PLANTED"
                    THEN /\ PatchState(new) \in {"PLANTED", "READY"}
                         /\ new.state = "PLANTED" => new.timer = old.timer - 1
                         /\ old.timer - 1 = 0 => new.state = "READY"
                         /\ new.state = "READY" => old.timer - 1 <= 0
                         /\ new.template = old.template
                    ELSE new = old]_vars

\* after two ticks: a slot of duration 2 is MATURE with timer 0 and a slot
\* of duration 60 is GROWING with timer 58
C15_Witness ==
    /\ last.op = "tick"
    /\ ticks = 2
    /\ TotalSeconds(animal_templates["cow"]) = 2
    /\ animals["cow"][0].state = "MATURE" /\ animals["cow"][0].timer = 0
    /\ animals["chicken"][0].state = "GROWING"
    /\ animals["chicken"][0].timer = TotalSeconds(animal_templates["chicken"]) - 2

\* C16: for every template set the loaders accept from the CSV files, in
\* every state between operations the timer of every animal slot and of
\* every crop patch is >= 0.
C16_TimersNonNegative ==
    /\ \A a \in DOMAIN animals : \A i \in DOMAIN animals[a] : animals[a][i].timer >= 0
    /\ \A y \in Rows, x \in Rows : crops[y][x] # None => crops[y][x].timer >= 0

\* C17: no FarmCore built from a malformed barn.csv or farm.csv (a loader
\* has failed on a row) becomes available to commands: no command ever runs
\* on the templates of the rows before the bad one.
C17_FailFast ==
    load_failed => calls = 0

\* C18: each tick invokes every registered callback exactly once, and only
\* after both the animal pass and the crop pass of that tick have completed:
\* no callback is called while the animal timers of the tick are advanced
\* and the crop timers are not.
C18_NotifyAfterPasses ==
    /\ [](\A k \in DOMAIN invoked :
              /\ {"update_animals", "update_crops"} \subseteq invoked[k].after
              /\ \A j \in DOMAIN invoked : j # k => invoked[j].callback # invoked[k].callback)
    /\ [][ticks' = ticks + 1
           => /\ Len(invoked') = Len(callbacks)
              /\ \A i \in DOMAIN callbacks : invoked'[i].callback = i]_vars

\* a tick has run to its end with two callbacks registered: both were called
\* once, after the passes that made a slot MATURE and a patch READY
C18_Witness ==
    /\ ticks >= 1 /\ loop_pc = 0
    /\ Len(callbacks) = 2
    /\ Len(invoked) = 2
    /\ invoked[1].callback = 1 /\ invoked[2].callback = 2
    /\ animals["cow"][0].state = "MATURE"
    /\ PatchState(crops[0][0]) = "READY"

\* C19: if a registered callback raises during a tick's notification, every
\* callback registered after it is still invoked in that tick, the
\* promotions the tick has made stand, and the game loop goes on: the task
\* is back at its sleep, from where the following ticks run.
C19_RaisingCallbackIsolated ==
    /\ [][(invoked' # invoked /\ \E k \in DOMAIN invoked' : invoked'[k].raised)
           => /\ \A i \in DOMAIN callbacks :
                    \E k \in DOMAIN invoked' : invoked'[k].callback = i
              /\ UNCHANGED farm_vars
              /\ game_task' = "sleeping"
              /\ loop_pc' = 0
              /\ ticks' = ticks + 1]_vars
    /\ [](game_task # "failed")

\* two ticks have run; in the last one the first callback raised, the second
\* was still called, the slot the ticks promoted is MATURE and the task is
\* back at its sleep
C19_Witness ==
    /\ ticks = 2 /\ loop_pc = 0
    /\ game_task = "sleeping"
    /\ Len(invoked) = 2
    /\ invoked[1].raised /\ invoked[1].callback = 1
    /\ ~ invoked[2].raised /\ invoked[2].callback = 2
    /\ calls = 1 /\ last.op = "notify_callbacks"
    /\ animals["cow"][0].state = "MATURE"

\* a tick applied to the animals and not yet to the crops
HalfApplied == "update_animals" \in Executed /\ "update_crops" \notin Executed

\* C20: a tick is all-or-nothing for the front end: no command executes
\* between a tick's _update_animals pass and the end of its _update_crops
\* pass, and cancelling the game loop task at shutdown never leaves a tick
\* applied to the animals but not to the crops.
C20_TickAllOrNothing ==
    /\ [][calls' # calls => ~ HalfApplied]_vars
    /\ [](game_task = "cancelled" => ~ HalfApplied)

\* the task cancelled at shutdown after two commands and one complete tick:
\* the fed slot and the planted patch, both of duration 2, are both at timer 1
C20_Witness ==
    /\ game_task = "cancelled"
    /\ ticks = 1 /\ calls = 2
    /\ TotalSeconds(animal_templates["cow"]) = 2
    /\ animals["cow"][0].state = "GROWING" /\ animals["cow"][0].timer = 1
    /\ PatchState(crops[0][0]) = "PLANTED" /\ crops[0][0].timer = 1

\* C21: the command line 'harvest <x> <y>' with two non-negative integers
\* calls harvest_crop(x, y) and touches no other patch; 'harvest <count>'
\* with one integer calls harvest_crops(count); 'harvest <animal_type>
\* <count>' calls harvest_animals(animal_type, count).
C21_HarvestDispatch ==
    [][\A command \in CommandLines :
          (Text(Arg(command, 0)) = "harvest" /\ Len(command) >= 2 /\ cli_run(command))
          => /\ (Len(command) = 3 /\ isdigit(Arg(command, 1)) /\ isdigit(Arg(command, 2)))
                => /\ last' = Op("harvest_crop", "", 0,
                                 ParseInt(Arg(command, 1)).value,
                                 ParseInt(Arg(command, 2)).value)
                   /\ \A y \in Rows, x \in Rows :
                         <<x, y>> # <<last'.x, last'.y>> => crops'[y][x] = crops[y][x]
             /\ (Len(command) = 2 /\ isdigit(Arg(command, 1)))
                => last' = Op("harvest_crops", "", ParseInt(Arg(command, 1)).value, 0, 0)
             /\ (Len(command) = 3 /\ ~ ParseInt(Arg(command, 1)).ok
                    /\ ParseInt(Arg(command, 2)).ok)
                => last' = Op("harvest_animals", Text(Arg(command, 1)),
                              ParseInt(Arg(command, 2)).value, 0, 0)]_vars

\* C22: within one species pool maturity preserves feeding order: when a
\* tick makes slot B MATURE, every slot A of the pool that is GROWING and
\* was fed no later than B (as many ticks ago, or more) is made MATURE by
\* that tick too, so A is MATURE no later than B; slots fed by the same
\* feed_animals call, being fed equally long ago, become MATURE on the same
\* tick.
C22_MaturityKeepsFeedingOrder ==
    [][(last'.op = "tick" /\ ticks' = ticks + 1)
       => \A a \in DOMAIN animals : \A A \in DOMAIN animals[a], B \in DOMAIN animals[a] :
             (/\ animals[a][B].state = "GROWING"
              /\ animals'[a][B].state = "MATURE"
              /\ animals[a][A].state = "GROWING"
              /\ fed_since[a][A] >= fed_since[a][B])
             => animals'[a][A].state = "MATURE"]_vars

\* two feed_animals calls a tick apart on a species of duration 2, then a
\* second tick: the slot fed first is MATURE, the slot fed after it is still
\* GROWING, one tick old
C22_Witness ==
    /\ last.op = "tick" /\ ticks = 2 /\ calls = 2
    /\ \E a \in DOMAIN animals :
          /\ TotalSeconds(animal_templates[a]) = 2
          /\ animals[a][0].state = "MATURE"
          /\ animals[a][1].state = "GROWING"
          /\ fed_since[a][1] = 1

\* a pool fed in full by one call, all its slots MATURE after the same tick
FedTogetherMatureTogether ==
    /\ last.op = "tick" /\ calls = 1
    /\ \E a \in DOMAIN animals :
          /\ TotalSeconds(animal_templates[a]) = 2
          /\ ticks = 2
          /\ \A i \in Slots : animals[a][i].state = "MATURE"

====
